---- MODULE Spec2Model ----
(***************************************************************************)
(* Iterators, generators and the stream adapters of the notebook           *)
(* iterators-generators-and-uncertainty.ipynb: the class-based counters    *)
(* skips and every, the two generator definitions of skips, and the        *)
(* generators concatenate, interleave and batch.                           *)
(*                                                                         *)
(* One behaviour is one run of a driver that builds its sources, builds    *)
(* (for an adapter) the adapter over them, and then applies the built-in   *)
(* next to the object under test again and again.  Every production call   *)
(* is recorded in calls, every iter/next an adapter applies to one of its  *)
(* sources in pulls.                                                       *)
(***************************************************************************)
EXTENDS Integers, Sequences, FiniteSets, TLC

VARIABLES
    prog,   \* which object the driver advances
    args,   \* the arguments the sources (and batch) were built with
    xs,     \* the first source (the object under test when prog is a counter)
    ys,     \* the second source
    gen,    \* the adapter's generator: its position and locals
    calls,  \* the results of the production calls so far, in order
    pulls,  \* the iter/next calls made on the sources by the adapter, in order
    ival,   \* the interval that iterators are obtained from
    handles, \* for each of two consumers, the object it holds: "xs", "ys", "none"
    others  \* the results of the second consumer's production calls, in order

vars == <<prog, args, xs, ys, gen, calls, pulls, ival, handles, others>>

(***************************************************************************)
(* Bounds of the model.                                                    *)
(***************************************************************************)
MaxStart == 1
MaxEnd == 5
MaxSize == 3
MaxPost == 3
MaxCalls == 4

Starts == (0 - MaxStart)..MaxStart
Ends == (0 - MaxStart - 2)..MaxEnd
SrcStarts == 0..MaxStart
SrcEnds == (0 - 1)..MaxEnd
Sizes == (0 - 2)..MaxSize
Lowers == (0 - MaxStart - 1)..MaxStart
Uppers == Ends

(***************************************************************************)
(* The iterators.  A production call returns [it, ok, val]: the iterator   *)
(* after the call, and either ok with the value returned or ~ok for        *)
(* StopIteration.                                                          *)
(***************************************************************************)
Value(it, v) == [it |-> it, ok |-> TRUE, val |-> v]
StopIteration(it) == [it |-> it, ok |-> FALSE]

\* class skips (unbounded): __init__
skips0_init == [kind |-> "skips0", integer |-> 0]

\* class skips (unbounded): __next__
skips0_next(self) ==
    LET o == [self EXCEPT !.integer = self.integer + 2]
    IN  Value(o, o.integer)

\* class skips: __init__
skips_init(start, end) == [kind |-> "skips", integer |-> start - 2, end |-> end]

\* mutant: the end is excluded (>= for >)
skips_next_ge(self) ==
    LET o == [self EXCEPT !.integer = self.integer + 2]
    IN  IF o.integer >= o.end THEN StopIteration(o) ELSE Value(o, o.integer)

\* mutant: exhaustion is tested by equality, so the counter runs on past it
skips_next_eq(self) ==
    LET o == [self EXCEPT !.integer = self.integer + 2]
    IN  IF o.integer = o.end + 2 THEN StopIteration(o) ELSE Value(o, o.integer)

\* mutant: the end is tested before the increment instead of after it
skips_next_late(self) ==
    IF self.integer > self.end THEN StopIteration(self)
    ELSE LET o == [self EXCEPT !.integer = self.integer + 2]
         IN  Value(o, o.integer)

\* class skips: __next__
skips_next(self) ==
    LET o == [self EXCEPT !.integer = self.integer + 2]
    IN  IF o.integer > o.end THEN StopIteration(o) ELSE Value(o, o.integer)

\* class every: __init__
every_init(start, end) == [kind |-> "every", integer |-> start - 1, end |-> end]

\* class every: __next__
every_next(self) ==
    LET o == [self EXCEPT !.integer = self.integer + 1]
    IN  IF o.integer > o.end THEN StopIteration(o) ELSE Value(o, o.integer)

\* def skips (yield): the call builds the generator, the body has not run
skips_yield_init(start, end) ==
    [kind |-> "skips_yield", start |-> start, end |-> end, pc |-> "created"]

\* def skips (yield): one resumption of the body, to the next yield or the end
skips_yield_next(g) ==
    IF g.pc = "done" THEN StopIteration(g)
    ELSE LET integer == IF g.pc = "created" THEN g.start ELSE g.integer + 2
             frame(pc) == [kind |-> g.kind, start |-> g.start, end |-> g.end,
                           integer |-> integer, pc |-> pc]
         IN  IF integer <= g.end
             THEN Value(frame("yield"), integer)
             ELSE StopIteration(frame("done"))

\* def skips (comprehension): the call evaluates range(start, end); r is the
\* next value of the range iterator
skips_comp_init(start, end) ==
    [kind |-> "skips_comp", start |-> start, end |-> end, r |-> start,
     pc |-> "created"]

\* the comprehension's loop: draw from the range until the filter passes
RECURSIVE comp_scan(_)
comp_scan(g) ==
    IF g.r >= g.end THEN StopIteration([g EXCEPT !.pc = "done"])
    ELSE IF (g.r - g.start) % 2 = 0
         THEN Value([g EXCEPT !.r = g.r + 1, !.pc = "yield"], g.r)
         ELSE comp_scan([g EXCEPT !.r = g.r + 1])

\* def skips (comprehension): one resumption of the generator expression
skips_comp_next(g) ==
    IF g.pc = "done" THEN StopIteration(g) ELSE comp_scan(g)

\* the built-in next: dispatch on the object's type
py_next(it) ==
    CASE it.kind = "skips0" -> skips0_next(it)
      [] it.kind = "skips" -> skips_next(it)
      [] it.kind = "every" -> every_next(it)
      [] it.kind = "skips_yield" -> skips_yield_next(it)
      [] it.kind = "skips_comp" -> skips_comp_next(it)

\* the constructor call kind(start, end)
Make(kind, start, end) ==
    CASE kind = "skips" -> skips_init(start, end)
      [] kind = "every" -> every_init(start, end)
      [] kind = "skips_yield" -> skips_yield_init(start, end)
      [] kind = "skips_comp" -> skips_comp_init(start, end)

\* list(it): draw until StopIteration
RECURSIVE py_list(_)
py_list(it) ==
    LET r == py_next(it)
    IN  IF r.ok THEN <<r.val>> \o py_list(r.it) ELSE <<>>

(***************************************************************************)
(* The iterable interval.                                                  *)
(***************************************************************************)
\* class interval: __init__
interval_init(lower, upper) == [kind |-> "interval", lower |-> lower, upper |-> upper]

\* class interval: evens
interval_evens(self) ==
    skips_init(self.lower + (IF self.lower % 2 = 0 THEN 0 ELSE 1), self.upper)

\* mutant: odds tests the parity that evens tests
interval_odds_even(self) ==
    skips_init(self.lower + (IF self.lower % 2 = 0 THEN 0 ELSE 1), self.upper)

\* class interval: odds
interval_odds(self) ==
    skips_init(self.lower + (IF self.lower % 2 = 1 THEN 0 ELSE 1), self.upper)

\* mutant: iter hands the second consumer a copy with a cursor of its own
every_iter_copy(self, c) ==
    [it |-> self, slot |-> IF c = 1 THEN "xs" ELSE "ys"]

\* every.__iter__, called by consumer c: return self, the instance held in xs
every_iter(self, c) == [it |-> self, slot |-> "xs"]

\* skips.__iter__, called by consumer c: return self
skips_iter(self, c) == [it |-> self, slot |-> "xs"]

\* mutant: the interval keeps one cursor, which __iter__ resets and hands out
\* again
interval_iter_shared(self, c) ==
    [self |-> self, it |-> every_init(self.lower, self.upper), slot |-> "xs"]

\* class interval: __iter__, called by consumer c.  The every it builds is a
\* new object on each call: consumer 1's is held in xs, consumer 2's in ys
interval_iter(self, c) ==
    [self |-> self, it |-> every_init(self.lower, self.upper),
     slot |-> IF c = 1 THEN "xs" ELSE "ys"]

\* mutant: integer is kept on the class, so a call on one instance moves the
\* counter of every instance
Advance_shared(h, x, y) ==
    LET r == py_next(IF h = "xs" THEN x ELSE y)
    IN  [xs |-> IF h = "xs" THEN r.it ELSE [x EXCEPT !.integer = r.it.integer],
         ys |-> IF h = "ys" THEN r.it ELSE [y EXCEPT !.integer = r.it.integer],
         res |-> r]

\* next(ns) on the object a consumer holds: __next__ changes self and nothing
\* else
Advance(h, x, y) ==
    LET r == py_next(IF h = "xs" THEN x ELSE y)
    IN  [xs |-> IF h = "xs" THEN r.it ELSE x,
         ys |-> IF h = "ys" THEN r.it ELSE y,
         res |-> r]

(***************************************************************************)
(* The adapters.  A production call on an adapter returns                  *)
(* [gen, xs, ys, ev, ok, val]: the generator and the two sources after the *)
(* call, the iter/next calls it made on the sources, in order, and its     *)
(* result.                                                                 *)
(***************************************************************************)
Ev(src, op, ok) == [src |-> src, op |-> op, ok |-> ok]

Yield(g, x, y, ev, v) ==
    [gen |-> g, xs |-> x, ys |-> y, ev |-> ev, ok |-> TRUE, val |-> v]
Return(g, x, y, ev) ==
    [gen |-> g, xs |-> x, ys |-> y, ev |-> ev, ok |-> FALSE]
\* an exception other than StopIteration leaves the generator finished
Raise(g, x, y, ev, err) ==
    [gen |-> g, xs |-> x, ys |-> y, ev |-> ev, ok |-> FALSE, err |-> err]

\* whether iter(x) succeeds: the first class skips has __init__ and __next__
\* only, so iter on an instance of it raises TypeError; every other source
\* has __iter__ or is a generator
Iterable(x) == x.kind # "skips0"

\* concatenate: the second loop, from its for statement (first) or resumed
\* at its yield
concatenate_ys(x, y, ev, first) ==
    LET s == py_next(y)
        e == ev \o (IF first THEN <<Ev("ys", "iter", TRUE)>> ELSE <<>>)
                \o <<Ev("ys", "next", s.ok)>>
    IN  IF s.ok THEN Yield([pc |-> "ys"], x, s.it, e, s.val)
        ELSE Return([pc |-> "done"], x, s.it, e)

\* mutant: the loops in the other order, ys before xs
concatenate_next_swapped(g, x, y) ==
    CASE g.pc = "done" -> Return(g, x, y, <<>>)
      [] g.pc = "ys" ->
            LET s == py_next(x)
            IN  IF s.ok THEN Yield([pc |-> "ys"], s.it, y, <<Ev("xs", "next", TRUE)>>, s.val)
                ELSE Return([pc |-> "done"], s.it, y, <<Ev("xs", "next", FALSE)>>)
      [] g.pc \in {"created", "xs"} ->
            LET r == py_next(y)
                e == (IF g.pc = "created" THEN <<Ev("ys", "iter", TRUE)>> ELSE <<>>)
                     \o <<Ev("ys", "next", r.ok)>>
            IN  IF r.ok THEN Yield([pc |-> "xs"], x, r.it, e, r.val)
                ELSE IF ~Iterable(x)
                THEN Raise([pc |-> "done"], x, r.it,
                           e \o <<Ev("xs", "iter", FALSE)>>, "TypeError")
                ELSE LET s == py_next(x)
                         f == e \o <<Ev("xs", "iter", TRUE), Ev("xs", "next", s.ok)>>
                     IN  IF s.ok THEN Yield([pc |-> "ys"], s.it, r.it, f, s.val)
                         ELSE Return([pc |-> "done"], s.it, r.it, f)

\* mutant: the second source is obtained (iter) before the first loop starts
concatenate_next_eager(g, x, y) ==
    CASE g.pc = "done" -> Return(g, x, y, <<>>)
      [] g.pc = "ys" -> concatenate_ys(x, y, <<>>, FALSE)
      [] g.pc = "created" /\ ~Iterable(x) ->
            Raise([pc |-> "done"], x, y,
                  <<Ev("ys", "iter", TRUE), Ev("xs", "iter", FALSE)>>, "TypeError")
      [] g.pc \in {"created", "xs"} /\ Iterable(x) ->
            LET r == py_next(x)
                e == (IF g.pc = "created"
                      THEN <<Ev("ys", "iter", TRUE), Ev("xs", "iter", TRUE)>>
                      ELSE <<>>)
                     \o <<Ev("xs", "next", r.ok)>>
            IN  IF r.ok THEN Yield([pc |-> "xs"], r.it, y, e, r.val)
                ELSE concatenate_ys(r.it, y, e, FALSE)

\* mutant: the first source is tried again on every call after its exhaustion
concatenate_next_recheck(g, x, y) ==
    CASE g.pc = "done" -> Return(g, x, y, <<>>)
      [] g.pc = "created" /\ ~Iterable(x) -> Raise([pc |-> "done"], x, y, <<Ev("xs", "iter", FALSE)>>, "TypeError")
      [] g.pc \in {"created", "xs", "ys"} /\ Iterable(x) ->
            LET r == py_next(x)
                e == (IF g.pc = "created" THEN <<Ev("xs", "iter", TRUE)>> ELSE <<>>)
                     \o <<Ev("xs", "next", r.ok)>>
            IN  IF r.ok THEN Yield([pc |-> "xs"], r.it, y, e, r.val)
                ELSE concatenate_ys(r.it, y, e, g.pc # "ys")

\* mutant: the exhaustion of the first source is handed to the caller, and
\* the second source is taken up on the call after it
concatenate_next_surface(g, x, y) ==
    CASE g.pc = "done" -> Return(g, x, y, <<>>)
      [] g.pc = "ys" -> concatenate_ys(x, y, <<>>, FALSE)
      [] g.pc = "switch" -> concatenate_ys(x, y, <<>>, TRUE)
      [] g.pc = "created" /\ ~Iterable(x) ->
            Raise([pc |-> "done"], x, y, <<Ev("xs", "iter", FALSE)>>, "TypeError")
      [] g.pc \in {"created", "xs"} /\ Iterable(x) ->
            LET r == py_next(x)
                e == (IF g.pc = "created" THEN <<Ev("xs", "iter", TRUE)>> ELSE <<>>)
                     \o <<Ev("xs", "next", r.ok)>>
            IN  IF r.ok THEN Yield([pc |-> "xs"], r.it, y, e, r.val)
                ELSE Return([pc |-> "switch"], r.it, y, e)

\* def concatenate: one resumption of the body, to the next yield or the end.
\* The for statement applies iter to xs when the body starts: over a source
\* with no __iter__ it raises TypeError, which finishes the generator
concatenate_next(g, x, y) ==
    CASE g.pc = "done" -> Return(g, x, y, <<>>)
      [] g.pc = "ys" -> concatenate_ys(x, y, <<>>, FALSE)
      [] g.pc = "created" /\ ~Iterable(x) ->
            Raise([pc |-> "done"], x, y, <<Ev("xs", "iter", FALSE)>>, "TypeError")
      [] g.pc \in {"created", "xs"} /\ Iterable(x) ->
            LET r == py_next(x)
                e == (IF g.pc = "created" THEN <<Ev("xs", "iter", TRUE)>> ELSE <<>>)
                     \o <<Ev("xs", "next", r.ok)>>
            IN  IF r.ok THEN Yield([pc |-> "xs"], r.it, y, e, r.val)
                ELSE concatenate_ys(r.it, y, e, TRUE)

\* mutant: the second source is drawn before the first
zip_next_yx(x, y) ==
    LET s == py_next(y)
    IN  IF ~s.ok
        THEN [xs |-> x, ys |-> s.it, ev |-> <<Ev("ys", "next", FALSE)>>, ok |-> FALSE]
        ELSE LET r == py_next(x)
                 e == <<Ev("ys", "next", TRUE), Ev("xs", "next", r.ok)>>
             IN  IF r.ok
                 THEN [xs |-> r.it, ys |-> s.it, ev |-> e, ok |-> TRUE,
                       val |-> <<r.val, s.val>>]
                 ELSE [xs |-> r.it, ys |-> s.it, ev |-> e, ok |-> FALSE]

\* the built-in zip's __next__ over (xs, ys): the sources in order, giving up
\* at the first that is exhausted
zip_next(x, y) ==
    LET r == py_next(x)
    IN  IF ~r.ok
        THEN [xs |-> r.it, ys |-> y, ev |-> <<Ev("xs", "next", FALSE)>>, ok |-> FALSE]
        ELSE LET s == py_next(y)
                 e == <<Ev("xs", "next", TRUE), Ev("ys", "next", s.ok)>>
             IN  IF s.ok
                 THEN [xs |-> r.it, ys |-> s.it, ev |-> e, ok |-> TRUE,
                       val |-> <<r.val, s.val>>]
                 ELSE [xs |-> r.it, ys |-> s.it, ev |-> e, ok |-> FALSE]

\* mutant: the pair is emitted as (y, x)
interleave_next_yx(g, x, y) ==
    CASE g.pc = "done" -> Return(g, x, y, <<>>)
      [] g.pc = "x" -> Yield([pc |-> "y"], x, y, <<>>, g.y)
      [] g.pc \in {"created", "y"} ->
            LET p == zip_next(x, y)
            IN  IF p.ok
                THEN Yield([pc |-> "x", y |-> p.val[1]], p.xs, p.ys, p.ev, p.val[2])
                ELSE Return([pc |-> "done"], p.xs, p.ys, p.ev)

\* mutant: the sources are drawn one per call, xs on the odd calls and ys on
\* the even ones
interleave_next_lazy(g, x, y) ==
    CASE g.pc = "done" -> Return(g, x, y, <<>>)
      [] g.pc = "x" ->
            LET s == py_next(y)
            IN  IF s.ok THEN Yield([pc |-> "y"], x, s.it, <<Ev("ys", "next", TRUE)>>, s.val)
                ELSE Return([pc |-> "done"], x, s.it, <<Ev("ys", "next", FALSE)>>)
      [] g.pc \in {"created", "y"} ->
            LET r == py_next(x)
            IN  IF r.ok THEN Yield([pc |-> "x"], r.it, y, <<Ev("xs", "next", TRUE)>>, r.val)
                ELSE Return([pc |-> "done"], r.it, y, <<Ev("xs", "next", FALSE)>>)

\* def interleave: one resumption of the generator expression.  pc "x": at
\* the yield of z = x, with y of the pair still to come; pc "y": at the yield
\* of z = y
interleave_next(g, x, y) ==
    CASE g.pc = "done" -> Return(g, x, y, <<>>)
      [] g.pc = "x" -> Yield([pc |-> "y"], x, y, <<>>, g.y)
      [] g.pc \in {"created", "y"} ->
            LET p == zip_next(x, y)
            IN  IF p.ok
                THEN Yield([pc |-> "x", y |-> p.val[2]], p.xs, p.ys, p.ev, p.val[1])
                ELSE Return([pc |-> "done"], p.xs, p.ys, p.ev)

\* iter(xs), as islice applies it to its argument: an interval builds a new
\* every at lower; an iterator (class or generator) gives itself
py_iter(x) ==
    IF x.kind = "interval" THEN interval_iter(x, 1).it ELSE every_iter(x, 1).it

\* the source after list(islice(xs, 0, size)) has drawn from it and left it
\* at t: the iterator built from an interval is dropped, and the interval is
\* as it was
Left(x, it) == IF x.kind = "interval" THEN x ELSE it

\* islice(xs, 0, size) drawn by list: at most k items, ending at the first
\* StopIteration, and no draw once k items are taken
RECURSIVE islice(_, _)
islice(it, k) ==
    IF k <= 0 THEN [it |-> it, items |-> <<>>, ev |-> <<>>]
    ELSE LET r == py_next(it)
         IN  IF ~r.ok
             THEN [it |-> r.it, items |-> <<>>, ev |-> <<Ev("xs", "next", FALSE)>>]
             ELSE LET t == islice(r.it, k - 1)
                  IN  [it |-> t.it, items |-> <<r.val>> \o t.items,
                       ev |-> <<Ev("xs", "next", TRUE)>> \o t.ev]

\* mutant: the loop goes on only while the batch is full, so a short last
\* batch is dropped
batch_next_full(g, x, y, size) ==
    IF g.pc = "done" THEN Return(g, x, y, <<>>)
    ELSE LET t == islice(py_iter(x), size)
             e == <<Ev("xs", "iter", TRUE)>> \o t.ev
         IN  IF Len(t.items) = size
             THEN Yield([pc |-> "yield"], Left(x, t.it), y, e, t.items)
             ELSE Return([pc |-> "done"], Left(x, t.it), y, e)

\* mutant: after a batch the source is probed for more, and the item drawn
\* by the probe is lost
batch_next_probe(g, x, y, size) ==
    IF g.pc = "done" THEN Return(g, x, y, <<>>)
    ELSE LET t == islice(py_iter(x), size)
             p == py_next(t.it)
             e == <<Ev("xs", "iter", TRUE)>> \o t.ev \o <<Ev("xs", "next", p.ok)>>
         IN  IF Len(t.items) > 0
             THEN Yield([pc |-> "yield"], Left(x, p.it), y, e, t.items)
             ELSE Return([pc |-> "done"], Left(x, t.it), y,
                         <<Ev("xs", "iter", TRUE)>> \o t.ev)

\* def batch: one resumption of the body, to the next yield or the end.
\* islice refuses a negative stop with ValueError before it applies iter
batch_next(g, x, y, size) ==
    IF g.pc = "done" THEN Return(g, x, y, <<>>)
    ELSE IF size < 0 THEN Raise([pc |-> "done"], x, y, <<>>, "ValueError")
    ELSE LET t == islice(py_iter(x), size)
             e == <<Ev("xs", "iter", TRUE)>> \o t.ev
         IN  IF Len(t.items) > 0
             THEN Yield([pc |-> "yield"], Left(x, t.it), y, e, t.items)
             ELSE Return([pc |-> "done"], Left(x, t.it), y, e)

\* the call concatenate(xs, ys): a generator function's call binds the
\* arguments and runs none of its body
concatenate_call(x, y) ==
    [gen |-> [pc |-> "created"], xs |-> x, ys |-> y, ev |-> <<>>]

\* mutant: the call draws the first item of xs ahead of the first next
interleave_call_prefetch(x, y) ==
    LET r == py_next(x)
    IN  [gen |-> [pc |-> "created"], xs |-> r.it, ys |-> y,
         ev |-> <<Ev("xs", "iter", TRUE), Ev("ys", "iter", TRUE),
                  Ev("xs", "next", r.ok)>>]

\* the call interleave(xs, ys): it evaluates zip(xs, ys), which applies iter
\* to both sources and draws from neither
interleave_call(x, y) ==
    [gen |-> [pc |-> "created"], xs |-> x, ys |-> y,
     ev |-> <<Ev("xs", "iter", TRUE), Ev("ys", "iter", TRUE)>>]

\* the call batch(xs, size)
batch_call(x, y, size) ==
    [gen |-> [pc |-> "created"], xs |-> x, ys |-> y, ev |-> <<>>]

(***************************************************************************)
(* The driver.                                                             *)
(***************************************************************************)
Counters == {"skips", "every", "skips_yield", "skips_comp"}
Unbounded == {"skips0"}
Adapters == {"concatenate", "interleave", "batch"}
NoArg == [kind |-> "none"]
NoSource == [kind |-> "none"]

Build(a) ==
    IF a.kind = "skips0" THEN skips0_init
    ELSE IF a.kind = "interval" THEN interval_init(a.lower, a.upper)
    ELSE Make(a.kind, a.start, a.end)

Parities == {"evens", "odds"}
CounterArgs == [kind : Counters, start : Starts, end : Ends]
TwoArgs == [kind : {"skips", "every"}, start : SrcStarts, end : SrcEnds]
SourceArgs == [kind : Counters, start : SrcStarts, end : SrcEnds]
IterableArgs == [kind : {"interval"}, lower : SrcStarts, upper : SrcEnds]

Result(r) ==
    IF r.ok THEN [ok |-> TRUE, val |-> r.val]
    ELSE IF "err" \in DOMAIN r THEN [ok |-> FALSE, err |-> r.err]
    ELSE [ok |-> FALSE]
Stops(cs) == Len(SelectSeq(cs, LAMBDA c : ~c.ok))

\* the driver goes on until it has seen MaxPost exhaustions, and gives up an
\* unbounded stream, or a stream that an iterable source starts over, after
\* MaxCalls items
MayCall ==
    /\ Stops(calls) < MaxPost
    /\ xs.kind \in {"skips0", "interval"} => Len(calls) < MaxCalls

\* a counter under test: ns = skips(start, end) and its variants
InitCounter ==
    \E a \in CounterArgs :
        /\ prog = a.kind
        /\ args = [xs |-> a, ys |-> NoArg, size |-> 0]
        /\ xs = Build(a)
        /\ ys = NoSource

\* ns = skips(), the first class, which has no end
InitSkips0 ==
    /\ prog = "skips0"
    /\ args = [xs |-> [kind |-> "skips0"], ys |-> NoArg, size |-> 0]
    /\ xs = Build(args.xs)
    /\ ys = NoSource

\* two sources for concatenate or interleave
InitPair ==
    \E p \in {"concatenate", "interleave"}, a \in SourceArgs, b \in SourceArgs :
        /\ prog = p
        /\ args = [xs |-> a, ys |-> b, size |-> 0]
        /\ xs = Build(a)
        /\ ys = Build(b)

\* concatenate handed an instance of the first class skips as its first
\* source
InitUnbounded ==
    \E b \in SourceArgs :
        /\ prog = "concatenate"
        /\ args = [xs |-> [kind |-> "skips0"], ys |-> b, size |-> 0]
        /\ xs = skips0_init
        /\ ys = Build(b)

\* a source and a size for batch
InitBatch ==
    \E a \in SourceArgs, n \in Sizes :
        /\ prog = "batch"
        /\ args = [xs |-> a, ys |-> NoArg, size |-> n]
        /\ xs = Build(a)
        /\ ys = NoSource

\* ns = interval(lower, upper).evens() or .odds()
InitParity ==
    \E p \in Parities, l \in Lowers, u \in Uppers :
        /\ prog = p
        /\ args = [xs |-> [kind |-> "interval", lower |-> l, upper |-> u],
                   ys |-> NoArg, size |-> 0]
        /\ ival = interval_init(l, u)
        /\ xs = IF p = "evens" THEN interval_evens(interval_init(l, u))
                ELSE interval_odds(interval_init(l, u))
        /\ ys = NoSource
        /\ handles = <<"none", "none">>

\* an interval that two consumers will iterate
InitInterval ==
    \E l \in Lowers, u \in Uppers :
        /\ prog = "interval"
        /\ args = [xs |-> [kind |-> "interval", lower |-> l, upper |-> u],
                   ys |-> NoArg, size |-> 0]
        /\ ival = interval_init(l, u)
        /\ xs = NoSource
        /\ ys = NoSource
        /\ handles = <<"none", "none">>

\* two instances constructed separately, one for each consumer
InitTwo ==
    \E a \in TwoArgs, b \in TwoArgs :
        /\ prog = "two"
        /\ args = [xs |-> a, ys |-> b, size |-> 0]
        /\ ival = NoSource
        /\ xs = Build(a)
        /\ ys = Build(b)
        /\ handles = <<"xs", "ys">>

\* an iterable source and a size for batch: xs = interval(lower, upper)
InitBatchIterable ==
    \E a \in IterableArgs, n \in Sizes :
        /\ prog = "batch_iterable"
        /\ args = [xs |-> a, ys |-> NoArg, size |-> n]
        /\ xs = Build(a)
        /\ ys = NoSource

\* ns = every(start, end) or skips(start, end), the classes whose __iter__
\* returns self; the first consumer holds ns
InitSelf ==
    \E a \in TwoArgs :
        /\ prog = "self"
        /\ args = [xs |-> a, ys |-> NoArg, size |-> 0]
        /\ ival = NoSource
        /\ xs = Build(a)
        /\ ys = NoSource
        /\ handles = <<"xs", "none">>

Init ==
    /\ gen = [pc |-> "none"]
    /\ calls = <<>>
    /\ pulls = <<>>
    /\ others = <<>>
    /\ \/ /\ ival = NoSource
          /\ handles = <<"none", "none">>
          /\ (InitCounter \/ InitSkips0 \/ InitPair \/ InitUnbounded
                \/ InitBatch \/ InitBatchIterable)
       \/ InitParity
       \/ InitInterval
       \/ InitTwo
       \/ InitSelf

\* the adapter is constructed: no production call is made
Construct(r) ==
    /\ gen' = r.gen
    /\ xs' = r.xs
    /\ ys' = r.ys
    /\ pulls' = pulls \o r.ev
    /\ UNCHANGED <<ival, handles, others, prog, args, calls>>

\* g = concatenate(xs, ys)
CallConcatenate ==
    /\ prog = "concatenate"
    /\ gen.pc = "none"
    /\ Construct(concatenate_call(xs, ys))

\* g = interleave(xs, ys)
CallInterleave ==
    /\ prog = "interleave"
    /\ gen.pc = "none"
    /\ Construct(interleave_call(xs, ys))

\* g = batch(xs, size)
CallBatch ==
    /\ prog \in {"batch", "batch_iterable"}
    /\ gen.pc = "none"
    /\ Construct(batch_call(xs, ys, args.size))

\* next(ns) on a counter
NextCounter ==
    /\ prog \in Counters \cup Parities \cup Unbounded
    /\ MayCall
    /\ LET r == py_next(xs)
       IN  /\ xs' = r.it
           /\ calls' = Append(calls, Result(r))
    /\ UNCHANGED <<ival, handles, others, prog, args, ys, gen, pulls>>

Resume(r) ==
    /\ gen' = r.gen
    /\ xs' = r.xs
    /\ ys' = r.ys
    /\ pulls' = pulls \o r.ev
    /\ calls' = Append(calls, Result(r))
    /\ UNCHANGED <<ival, handles, others, prog, args>>

\* next on the generator concatenate(xs, ys)
NextConcatenate ==
    /\ prog = "concatenate"
    /\ gen.pc # "none"
    /\ MayCall
    /\ Resume(concatenate_next(gen, xs, ys))

\* next on the generator interleave(xs, ys)
NextInterleave ==
    /\ prog = "interleave"
    /\ gen.pc # "none"
    /\ MayCall
    /\ Resume(interleave_next(gen, xs, ys))

\* next on the generator batch(xs, size)
NextBatch ==
    /\ prog \in {"batch", "batch_iterable"}
    /\ gen.pc # "none"
    /\ MayCall
    /\ Resume(batch_next(gen, xs, ys, args.size))

LogOf(c) == IF c = 1 THEN calls ELSE others

\* iter(i) by consumer c, which starts a traversal of its own
IterInterval(c) ==
    /\ prog = "interval"
    /\ LET r == interval_iter(ival, c)
       IN  /\ ival' = r.self
           /\ handles' = [handles EXCEPT ![c] = r.slot]
           /\ xs' = IF r.slot = "xs" THEN r.it ELSE xs
           /\ ys' = IF r.slot = "ys" THEN r.it ELSE ys
    /\ calls' = IF c = 1 THEN <<>> ELSE calls
    /\ others' = IF c = 2 THEN <<>> ELSE others
    /\ UNCHANGED <<prog, args, gen, pulls>>

\* iter(ns) by consumer c on the self-returning instance
IterSelf(c) ==
    /\ prog = "self"
    /\ LET r == IF xs.kind = "every" THEN every_iter(xs, c) ELSE skips_iter(xs, c)
       IN  /\ handles' = [handles EXCEPT ![c] = r.slot]
           /\ xs' = IF r.slot = "xs" THEN r.it ELSE xs
           /\ ys' = IF r.slot = "ys" THEN r.it ELSE ys
    /\ UNCHANGED <<prog, args, gen, pulls, ival, calls, others>>

\* next(ns) by consumer c on the object it holds
NextConsumer(c) ==
    /\ prog \in {"interval", "two", "self"}
    /\ handles[c] # "none"
    /\ Stops(LogOf(c)) < MaxPost
    /\ LET r == Advance(handles[c], xs, ys)
       IN  /\ xs' = r.xs
           /\ ys' = r.ys
           /\ calls' = IF c = 1 THEN Append(calls, Result(r.res)) ELSE calls
           /\ others' = IF c = 2 THEN Append(others, Result(r.res)) ELSE others
    /\ UNCHANGED <<prog, args, gen, pulls, ival, handles>>

Next ==
    \/ \E c \in {1, 2} : IterInterval(c)
    \/ \E c \in {1, 2} : IterSelf(c)
    \/ \E c \in {1, 2} : NextConsumer(c)
    \/ CallConcatenate
    \/ CallInterleave
    \/ CallBatch
    \/ NextCounter
    \/ NextConcatenate
    \/ NextInterleave
    \/ NextBatch

Spec == Init /\ [][Next]_vars

(***************************************************************************)
(* What the driver has observed.                                           *)
(***************************************************************************)
Exhausted == \E i \in 1..Len(calls) : ~calls[i].ok /\ "err" \notin DOMAIN calls[i]

\* the position of the first production call that returned no value
FirstStop ==
    IF Stops(calls) > 0
    THEN CHOOSE i \in 1..Len(calls) : ~calls[i].ok /\ \A j \in 1..(i - 1) : calls[j].ok
    ELSE Len(calls) + 1

\* the values returned before exhaustion was first reported
FirstRun == [i \in 1..(FirstStop - 1) |-> calls[i].val]

Min(a, b) == IF a <= b THEN a ELSE b
IsPrefix(s, t) == Len(s) <= Len(t) /\ \A i \in 1..Len(s) : s[i] = t[i]

RECURSIVE Flatten(_)
Flatten(ss) == IF ss = <<>> THEN <<>> ELSE Head(ss) \o Flatten(Tail(ss))

Count(s, P(_)) == Len(SelectSeq(s, P))

\* what each source emits when drawn alone, from its construction
ItemsA == py_list(Build(args.xs))
ItemsB == py_list(Build(args.ys))
\* every source that can be iterated over is finite
Finite == Iterable(args.xs)

(***************************************************************************)
(* C1.  For start <= end the class-based skips(start, end) returns exactly *)
(* floor((end - start) / 2) + 1 values before it first reports exhaustion: *)
(* the first is start, each later one is the previous plus 2, the last is  *)
(* <= end and the last plus 2 is > end.                                    *)
(***************************************************************************)
C1_SkipsCount ==
    (prog = "skips" /\ args.xs.start <= args.xs.end) =>
        LET v == FirstRun
            n == Len(v)
        IN  /\ n >= 1 => v[1] = args.xs.start
            /\ \A i \in 2..n : v[i] = v[i - 1] + 2
            /\ \A i \in 1..n : v[i] <= args.xs.end
            /\ Exhausted =>
                /\ n = ((args.xs.end - args.xs.start) \div 2) + 1
                /\ v[n] + 2 > args.xs.end

C1_Witness ==
    /\ prog = "skips"
    /\ args.xs.start <= args.xs.end
    /\ Exhausted
    /\ Len(FirstRun) >= 3

(***************************************************************************)
(* C2.  The yield-based and the comprehension-based generator skips and    *)
(* the class-based skips all emit start, start + 2, ... up to and          *)
(* including the largest such value <= end.                                *)
(***************************************************************************)
C2_SameSequence ==
    (prog \in {"skips", "skips_yield", "skips_comp"} /\ Exhausted) =>
        LET n == IF args.xs.start <= args.xs.end
                 THEN ((args.xs.end - args.xs.start) \div 2) + 1
                 ELSE 0
        IN  FirstRun = [i \in 1..n |-> args.xs.start + 2 * (i - 1)]

(***************************************************************************)
(* C3.  concatenate(A, B) over finite sources emits exactly the items of A *)
(* in A's order followed by the items of B in B's order, n + m in all.     *)
(***************************************************************************)
C3_Concatenation ==
    (prog = "concatenate" /\ Finite) =>
        /\ IsPrefix(FirstRun, ItemsA \o ItemsB)
        /\ Exhausted =>
            /\ FirstRun = ItemsA \o ItemsB
            /\ Len(FirstRun) = Len(ItemsA) + Len(ItemsB)

C3_Witness ==
    /\ prog = "concatenate"
    /\ Finite
    /\ Exhausted
    /\ Len(ItemsA) >= 2
    /\ Len(ItemsB) >= 2
    /\ Len(FirstRun) = Len(ItemsA) + Len(ItemsB)

(***************************************************************************)
(* C4.  concatenate makes no iter or next call on its second source before *)
(* the first has reported exhaustion; as long as the first has not         *)
(* reported exhaustion, after any number of production calls, the second   *)
(* has not been queried and stands as it was built.                        *)
(***************************************************************************)
C4_SecondUntouched ==
    prog = "concatenate" =>
        /\ \A j \in 1..Len(pulls) :
              pulls[j].src = "ys" =>
                  \E i \in 1..(j - 1) : pulls[i] = Ev("xs", "next", FALSE)
        /\ (\A j \in 1..Len(pulls) : pulls[j] # Ev("xs", "next", FALSE)) =>
              /\ \A j \in 1..Len(pulls) : pulls[j].src = "xs"
              /\ ys = Build(args.ys)

C4_Witness ==
    /\ prog = "concatenate"
    /\ Finite
    /\ Len(calls) >= 3
    /\ \A i \in 1..Len(calls) : calls[i].ok
    /\ Len(pulls) >= 4
    /\ \A j \in 1..Len(pulls) : pulls[j].src = "xs"
    /\ ItemsB # <<>>

(***************************************************************************)
(* C5.  interleave(A, B) over finite sources emits exactly                 *)
(* 2 * min(len(A), len(B)) items: item 2i-1 is A's i-th and item 2i is     *)
(* B's i-th; nothing of the longer source beyond the shorter one's length  *)
(* is emitted.                                                             *)
(***************************************************************************)
C5_Interleaving ==
    prog = "interleave" =>
        LET v == FirstRun
            m == Min(Len(ItemsA), Len(ItemsB))
        IN  /\ Len(v) <= 2 * m
            /\ \A i \in 1..Len(v) :
                  v[i] = IF i % 2 = 1 THEN ItemsA[(i + 1) \div 2] ELSE ItemsB[i \div 2]
            /\ Exhausted => Len(v) = 2 * m

C5_Witness ==
    /\ prog = "interleave"
    /\ Exhausted
    /\ Len(ItemsA) # Len(ItemsB)
    /\ Len(FirstRun) >= 4

(***************************************************************************)
(* C6.  batch(source, k) with k >= 1 over a finite iterator of n items     *)
(* emits ceil(n / k) batches, each of length in 1..k, all but possibly the *)
(* last of length k, the last of length n mod k (k when k divides n); an   *)
(* empty source gives no batch.                                            *)
(***************************************************************************)
C6_BatchCount ==
    (prog = "batch" /\ args.size >= 1) =>
        LET v == FirstRun
            b == Len(v)
            n == Len(ItemsA)
            k == args.size
        IN  /\ \A i \in 1..b : Len(v[i]) >= 1 /\ Len(v[i]) <= k
            /\ \A i \in 1..(b - 1) : Len(v[i]) = k
            /\ Exhausted =>
                /\ b = (n + k - 1) \div k
                /\ n = 0 => b = 0
                /\ b >= 1 => Len(v[b]) = IF n % k = 0 THEN k ELSE n % k

C6_Witness ==
    /\ prog = "batch"
    /\ Exhausted
    /\ Len(FirstRun) >= 2
    /\ Len(FirstRun[Len(FirstRun)]) < args.size

(***************************************************************************)
(* C7.  The batches of batch(source, k), joined in the order emitted, are  *)
(* the source's items: none lost, duplicated or reordered.                 *)
(***************************************************************************)
C7_BatchesJoin ==
    (prog = "batch" /\ args.size >= 1) =>
        /\ IsPrefix(Flatten(FirstRun), ItemsA)
        /\ Exhausted => Flatten(FirstRun) = ItemsA

C7_Witness ==
    /\ prog = "batch"
    /\ Exhausted
    /\ args.size >= 2
    /\ Len(FirstRun) >= 2
    /\ Len(ItemsA) >= 5

(***************************************************************************)
(* C8.  Once a production call on skips, every, concatenate, interleave or *)
(* batch has reported exhaustion, every later production call on the same  *)
(* instance reports exhaustion and returns no value.                       *)
(***************************************************************************)
C8_ExhaustedIsTerminal ==
    prog \in {"skips", "every", "concatenate", "interleave", "batch"} =>
        \A i \in 1..Len(calls) : \A j \in (i + 1)..Len(calls) :
            ~calls[i].ok => ~calls[j].ok

C8_Witness ==
    /\ prog = "skips"
    /\ Len(FirstRun) >= 2
    /\ Stops(calls) >= 3

(***************************************************************************)
(* C9.  A production call on an already exhausted skips or every leaves    *)
(* the instance as it was: its fields integer and end have the same values *)
(* after the call as before it.                                            *)
(***************************************************************************)
C9_ExhaustedCallNoMutation ==
    [][(prog \in {"skips", "every"} /\ Exhausted) =>
          (xs'.integer = xs.integer /\ xs'.end = xs.end)]_vars

(***************************************************************************)
(* C10.  Every pair-step of interleave draws from a first; when a reports  *)
(* exhaustion the step ends without a draw from b, and nothing is drawn    *)
(* afterwards.  So the draws made on b never outnumber the items obtained  *)
(* from a.                                                                 *)
(***************************************************************************)
C10_FirstSourceFirst ==
    prog = "interleave" =>
        /\ \A j \in 1..Len(pulls) :
              (pulls[j].src = "ys" /\ pulls[j].op = "next") =>
                  (j > 1 /\ pulls[j - 1] = Ev("xs", "next", TRUE))
        /\ \A j \in 1..Len(pulls) :
              pulls[j] = Ev("xs", "next", FALSE) => j = Len(pulls)
        /\ Count(pulls, LAMBDA e : e.src = "ys" /\ e.op = "next")
              <= Count(pulls, LAMBDA e : e = Ev("xs", "next", TRUE))

C10_Witness ==
    /\ prog = "interleave"
    /\ Exhausted
    /\ Len(ItemsA) >= 2
    /\ Len(ItemsA) < Len(ItemsB)
    /\ pulls[Len(pulls)] = Ev("xs", "next", FALSE)
    /\ Count(pulls, LAMBDA e : e.src = "ys" /\ e.op = "next") = Len(ItemsA)

\* the draws (next calls) made on a source so far, and those that gave an item
Drawn(src) == Count(pulls, LAMBDA e : e.src = src /\ e.op = "next")
Obtained(src) == Count(pulls, LAMBDA e : e = Ev(src, "next", TRUE))

(***************************************************************************)
(* C11.  When a pair-step of interleave obtains an item from a and b then  *)
(* reports exhaustion, interleave reports exhaustion and that item is      *)
(* dropped: for len(a) > len(b), len(b) + 1 items are consumed from a and  *)
(* only the first len(b) of them are emitted.                              *)
(***************************************************************************)
C11_UnpairedItemDropped ==
    (prog = "interleave" /\ Exhausted /\ Len(ItemsA) > Len(ItemsB)) =>
        LET m == Len(ItemsB)
        IN  /\ Obtained("xs") = m + 1
            /\ py_list(xs) = SubSeq(ItemsA, m + 2, Len(ItemsA))
            /\ Len(FirstRun) = 2 * m
            /\ \A i \in 1..m : FirstRun[2 * i - 1] = ItemsA[i]
            /\ pulls[Len(pulls)] = Ev("ys", "next", FALSE)
            /\ pulls[Len(pulls) - 1] = Ev("xs", "next", TRUE)

C11_Witness ==
    /\ prog = "interleave"
    /\ Exhausted
    /\ Len(ItemsB) >= 2
    /\ Len(ItemsA) > Len(ItemsB) + 1
    /\ Obtained("xs") = Len(ItemsB) + 1

(***************************************************************************)
(* C12.  A batch shorter than k is returned to the caller as a value, the  *)
(* production call right after it reports exhaustion, and no batch is      *)
(* emitted after it.                                                       *)
(***************************************************************************)
C12_ShortBatchIsLast ==
    (prog = "batch" /\ args.size >= 1) =>
        LET n == Len(ItemsA)
            k == args.size
        IN  /\ \A i \in 1..Len(calls) :
                  (calls[i].ok /\ Len(calls[i].val) < k) =>
                      \A j \in (i + 1)..Len(calls) : ~calls[j].ok
            /\ (Exhausted /\ n % k # 0) =>
                  /\ FirstStop >= 2
                  /\ calls[FirstStop - 1].val = SubSeq(ItemsA, n - (n % k) + 1, n)

C12_Witness ==
    /\ prog = "batch"
    /\ args.size >= 2
    /\ Stops(calls) >= 2
    /\ FirstStop >= 3
    /\ Len(calls[FirstStop - 1].val) < args.size

(***************************************************************************)
(* C13.  concatenate sees the exhaustion of its first source once: after   *)
(* it, no call on concatenate draws from the first source again, and every *)
(* later draw is from the second.                                          *)
(***************************************************************************)
C13_FirstNeverRevisited ==
    prog = "concatenate" =>
        /\ Count(pulls, LAMBDA e : e = Ev("xs", "next", FALSE)) <= 1
        /\ \A i \in 1..Len(pulls) : \A j \in (i + 1)..Len(pulls) :
              pulls[i] = Ev("xs", "next", FALSE) => pulls[j].src = "ys"

C13_Witness ==
    /\ prog = "concatenate"
    /\ Count(pulls, LAMBDA e : e = Ev("xs", "next", FALSE)) = 1
    /\ Obtained("xs") >= 1
    /\ Obtained("ys") >= 2
    /\ Stops(calls) >= 2

(***************************************************************************)
(* C15.  For start > end the class-based skips(start, end) and             *)
(* every(start, end) return no value: the first production call reports    *)
(* exhaustion, also when start = end + 1.                                  *)
(***************************************************************************)
C15_EmptyRange ==
    (prog \in {"skips", "every"} /\ args.xs.start > args.xs.end) =>
        \A i \in 1..Len(calls) : ~calls[i].ok

C15_Witness ==
    /\ prog = "skips"
    /\ args.xs.start = args.xs.end + 1
    /\ Len(calls) >= 1
    /\ ~calls[1].ok

(***************************************************************************)
(* C19 as stated.  interleave draws one source per production call: call   *)
(* 2i-1 draws a's i-th item and call 2i draws b's i-th item, so when a's   *)
(* item of pair i is returned b has been drawn only i-1 times.             *)
(***************************************************************************)
C19_OneDrawPerCall ==
    (prog = "interleave" /\ ~Exhausted) =>
        /\ Drawn("xs") = (Len(calls) + 1) \div 2
        /\ Drawn("ys") = Len(calls) \div 2

(***************************************************************************)
(* C19 as amended.  Production call 2i-1 of interleave draws the i-th item *)
(* of a and then the i-th item of b, and call 2i draws nothing: when a's   *)
(* item of pair i is returned, b has been drawn i times.                   *)
(***************************************************************************)
C19_PairDrawnAtOnce ==
    (prog = "interleave" /\ ~Exhausted) =>
        /\ Drawn("xs") = (Len(calls) + 1) \div 2
        /\ Drawn("ys") = (Len(calls) + 1) \div 2
        /\ \A i \in 1..Len(calls) :
              calls[i].val = IF i % 2 = 1 THEN ItemsA[(i + 1) \div 2]
                             ELSE ItemsB[i \div 2]

C19_Witness ==
    /\ prog = "interleave"
    /\ ~Exhausted
    /\ Len(calls) = 3
    /\ Drawn("ys") = 2

(***************************************************************************)
(* C20.  concatenate over two sources it can iterate reports exhaustion    *)
(* only after its first and then its second source have reported           *)
(* exhaustion: the call that sees the first source's exhaustion goes on to *)
(* the second in the same call, and returns its first item (or exhaustion  *)
(* if the second is empty).                                                *)
(***************************************************************************)
C20_ExhaustionInOrder ==
    (prog = "concatenate" /\ Finite /\ gen.pc # "none") =>
        /\ Exhausted <=>
              \E i \in 1..Len(pulls) : \E j \in (i + 1)..Len(pulls) :
                  /\ pulls[i] = Ev("xs", "next", FALSE)
                  /\ pulls[j] = Ev("ys", "next", FALSE)
        /\ \A i \in 1..Len(pulls) :
              pulls[i] = Ev("xs", "next", FALSE) =>
                  /\ i + 2 <= Len(pulls)
                  /\ pulls[i + 1] = Ev("ys", "iter", TRUE)
                  /\ pulls[i + 2].src = "ys" /\ pulls[i + 2].op = "next"
        /\ Len(FirstRun) = Obtained("xs") + Obtained("ys")

C20_Witness ==
    /\ prog = "concatenate"
    /\ ~Exhausted
    /\ Obtained("xs") >= 1
    /\ Len(calls) = Obtained("xs") + 1
    /\ pulls[Len(pulls)] = Ev("ys", "next", TRUE)
    /\ pulls[Len(pulls) - 2] = Ev("xs", "next", FALSE)

(***************************************************************************)
(* C14.  Constructing batch with a size <= 0 fails at construction: no     *)
(* batcher is produced, no production call is made on one, and nothing is  *)
(* asked of the source.                                                    *)
(***************************************************************************)
C14_InvalidSizeRejected ==
    (prog = "batch" /\ args.size <= 0) =>
        /\ gen.pc = "none"
        /\ calls = <<>>
        /\ pulls = <<>>

\* the members of a finite set of integers, in increasing order
RECURSIVE Ascending(_)
Ascending(S) ==
    IF S = {} THEN <<>>
    ELSE LET m == CHOOSE x \in S : \A y \in S : x <= y
         IN  <<m>> \o Ascending(S \ {m})

\* what a consumer has been given before its first exhaustion
RunOf(log) ==
    LET stop == IF Stops(log) > 0
                THEN CHOOSE i \in 1..Len(log) :
                        ~log[i].ok /\ \A j \in 1..(i - 1) : log[j].ok
                ELSE Len(log) + 1
    IN  [i \in 1..(stop - 1) |-> log[i].val]

\* an iterator and its results after n production calls with no other caller
RECURSIVE Alone(_, _)
Alone(it, n) ==
    IF n = 0 THEN [it |-> it, log |-> <<>>]
    ELSE LET r == py_next(it)
             t == Alone(r.it, n - 1)
         IN  [it |-> t.it, log |-> <<Result(r)>> \o t.log]

(***************************************************************************)
(* C16.  For interval(lower, upper) the iterator of evens() emits exactly  *)
(* the even integers of lower..upper in increasing order and that of       *)
(* odds() exactly the odd ones, whatever the parity and sign of lower;     *)
(* neither emits a value of the wrong parity or outside the interval.      *)
(***************************************************************************)
C16_EvensAndOdds ==
    prog \in Parities =>
        LET parity == IF prog = "evens" THEN 0 ELSE 1
            want == Ascending({n \in args.xs.lower..args.xs.upper : n % 2 = parity})
        IN  /\ \A i \in 1..Len(calls) :
                  calls[i].ok =>
                      /\ calls[i].val % 2 = parity
                      /\ calls[i].val >= args.xs.lower
                      /\ calls[i].val <= args.xs.upper
            /\ IsPrefix(FirstRun, want)
            /\ Exhausted => FirstRun = want

C16_Witness ==
    /\ prog = "odds"
    /\ args.xs.lower < 0
    /\ args.xs.lower % 2 = 0
    /\ Exhausted
    /\ Len(FirstRun) >= 3

(***************************************************************************)
(* C17.  Every iter() on an interval gives a fresh iterator placed at      *)
(* lower: iterators obtained from one interval and advanced in any         *)
(* interleaving each emit lower, lower + 1, ..., upper in full, none       *)
(* changes what another emits, and the interval's lower and upper stay as  *)
(* constructed.                                                            *)
(***************************************************************************)
C17_FreshIterators ==
    prog = "interval" =>
        LET l == args.xs.lower
            u == args.xs.upper
            want == [i \in 1..(IF u >= l THEN u - l + 1 ELSE 0) |-> l + i - 1]
        IN  /\ ival = interval_init(l, u)
            /\ \A c \in {1, 2} :
                  /\ IsPrefix(RunOf(LogOf(c)), want)
                  /\ Stops(LogOf(c)) > 0 => RunOf(LogOf(c)) = want
                  /\ \A i \in 1..Len(LogOf(c)) : \A j \in (i + 1)..Len(LogOf(c)) :
                        ~LogOf(c)[i].ok => ~LogOf(c)[j].ok
            /\ handles[1] # "none" => xs = Alone(every_init(l, u), Len(calls)).it
            /\ handles[2] # "none" => ys = Alone(every_init(l, u), Len(others)).it

C17_Witness ==
    /\ prog = "interval"
    /\ handles = <<"xs", "ys">>
    /\ Stops(calls) = 0
    /\ Len(calls) >= 2
    /\ Stops(others) > 0
    /\ Len(RunOf(others)) >= 4

(***************************************************************************)
(* C18.  Two instances constructed separately and advanced each by its own *)
(* consumer: under every interleaving of the two consumers' calls each     *)
(* sees the values and the exhaustion it would see running alone, and a    *)
(* call on one instance leaves the other as it was.                        *)
(***************************************************************************)
C18_InstancesIndependent ==
    prog = "two" =>
        LET a == Alone(Build(args.xs), Len(calls))
            b == Alone(Build(args.ys), Len(others))
        IN  /\ calls = a.log
            /\ xs = a.it
            /\ others = b.log
            /\ ys = b.it

C18_Witness ==
    /\ prog = "two"
    /\ Len(RunOf(calls)) >= 2
    /\ Stops(calls) = 0
    /\ Len(RunOf(others)) >= 2
    /\ Stops(others) >= 2
    /\ xs.integer # ys.integer

(***************************************************************************)
(* C21.  batch never reads ahead of the batch it delivers: when a batch is *)
(* returned the items drawn from the source are exactly those of the       *)
(* batches returned so far, the source stands at the item after them, no   *)
(* production call draws more than k items, and while every batch is full  *)
(* no draw has been made that found the source exhausted.                  *)
(***************************************************************************)
C21_NoReadAhead ==
    (prog = "batch" /\ args.size >= 1) =>
        LET k == args.size
            got == Flatten(FirstRun)
        IN  /\ Obtained("xs") = Len(got)
            /\ IsPrefix(got, ItemsA)
            /\ py_list(xs) = SubSeq(ItemsA, Len(got) + 1, Len(ItemsA))
            /\ \A i \in 1..(Len(pulls) - k) :
                  \E j \in i..(i + k) : pulls[j] # Ev("xs", "next", TRUE)
            /\ (~Exhausted /\ \A i \in 1..Len(FirstRun) : Len(FirstRun[i]) = k) =>
                  Drawn("xs") = Obtained("xs")

C21_Witness ==
    /\ prog = "batch"
    /\ args.size >= 2
    /\ Stops(calls) = 0
    /\ Len(calls) >= 2
    /\ \A i \in 1..Len(calls) : Len(calls[i].val) = args.size
    /\ Drawn("xs") = Len(calls) * args.size
    /\ py_list(xs) # <<>>

(***************************************************************************)
(* C22.  Constructing concatenate, interleave or batch consumes no item    *)
(* from any source: after construction and before the first production     *)
(* call the sources are as they were built and no draw has been made, and  *)
(* at all times a source stands where the draws made by the production     *)
(* calls have left it.                                                     *)
(***************************************************************************)
C22_ConstructionDrawsNothing ==
    prog \in Adapters =>
        /\ gen.pc \in {"none", "created"} =>
              /\ calls = <<>>
              /\ xs = Build(args.xs)
              /\ prog # "batch" => ys = Build(args.ys)
              /\ Drawn("xs") = 0
              /\ Drawn("ys") = 0
        /\ calls = <<>> => Drawn("xs") + Drawn("ys") = 0
        /\ xs = Alone(Build(args.xs), Drawn("xs")).it
        /\ prog # "batch" => ys = Alone(Build(args.ys), Drawn("ys")).it

C22_Witness ==
    /\ prog = "interleave"
    /\ gen.pc = "created"
    /\ pulls = <<Ev("xs", "iter", TRUE), Ev("ys", "iter", TRUE)>>
    /\ ItemsA # <<>>
    /\ ItemsB # <<>>
    /\ py_list(xs) = ItemsA
    /\ py_list(ys) = ItemsB

\* the values in a consumer's log
Values(log) == {log[i].val : i \in {j \in 1..Len(log) : log[j].ok}}

(***************************************************************************)
(* C23.  A self-returning iterator (every, skips) has one cursor, shared   *)
(* by the instance and by every result of iter() on it: under any          *)
(* interleaving of the calls made through them the cursor stands where     *)
(* that many calls by a single caller would leave it, each caller sees     *)
(* increasing values, no value is returned twice, the values returned are  *)
(* the first items of the range, and once any caller is told of            *)
(* exhaustion the whole range has been returned and nothing follows.       *)
(***************************************************************************)
C23_OneSharedCursor ==
    prog = "self" =>
        LET items == py_list(Build(args.xs))
            m == Cardinality(Values(calls) \cup Values(others))
        IN  /\ xs = Alone(Build(args.xs), Len(calls) + Len(others)).it
            /\ \A c \in {1, 2} :
                  /\ \A i \in 1..Len(LogOf(c)) : \A j \in (i + 1)..Len(LogOf(c)) :
                        /\ ~LogOf(c)[i].ok => ~LogOf(c)[j].ok
                        /\ LogOf(c)[j].ok => LogOf(c)[i].val < LogOf(c)[j].val
            /\ Values(calls) \cap Values(others) = {}
            /\ Len(RunOf(calls)) + Len(RunOf(others)) = m
            /\ m <= Len(items)
            /\ Values(calls) \cup Values(others) = {items[i] : i \in 1..m}
            /\ Stops(calls) + Stops(others) > 0 => m = Len(items)

C23_Witness ==
    /\ prog = "self"
    /\ handles = <<"xs", "xs">>
    /\ Len(RunOf(calls)) >= 2
    /\ Len(RunOf(others)) >= 2
    /\ calls[1].val < others[1].val
    /\ others[1].val < calls[2].val
    /\ Stops(others) > 0
    /\ Stops(calls) > 0

(***************************************************************************)
(* C24.  batch(xs, size) with size >= 1 terminates for every finite        *)
(* source, an iterator such as skips and an iterable such as interval      *)
(* alike: over a source of n items it returns at most ceil(n / size)       *)
(* batches, and the production call after the last of them reports         *)
(* exhaustion.                                                             *)
(***************************************************************************)
C24_BatchTerminates ==
    (prog \in {"batch", "batch_iterable"} /\ args.size >= 1) =>
        LET n == Len(py_list(py_iter(Build(args.xs))))
            k == args.size
            most == (n + k - 1) \div k
        IN  /\ Len(FirstRun) <= most
            /\ Len(calls) > most => Exhausted

====
